---- MODULE Spec2Model ----
(***************************************************************************)
(* Model of the cypher_character_model crate: the CharacterStats value,    *)
(* its construction and CharacterStats::spend_effort.                      *)
(*                                                                         *)
(* All quantities are Rust u8.  Arithmetic on u8 either panics on overflow *)
(* (overflow-checks on, the default of the dev/test profile) or wraps      *)
(* modulo 256 (overflow-checks off, the default of the release profile).   *)
(* The profile is fixed per build: it is the variable overflow_checks,     *)
(* chosen in Init and never changed.                                       *)
(***************************************************************************)
EXTENDS Integers, FiniteSets, Sequences, TLC

VARIABLES
    stats,            \* the CharacterStats value (self)
    overflow_checks,  \* build profile: TRUE = overflow panics, FALSE = wraps
    before,           \* history: the CharacterStats value before the last call
    call,             \* history: the last call and its arguments
    result,           \* history: what the last call returned
    spends,           \* history: number of successful spend_effort calls
    initial,          \* history: the CharacterStats value as constructed
    costs_paid,       \* history: per pool, the costs of the successful calls
    character,        \* the Character (the frontend's AppState.character)
    rendered,         \* history: the last Character rendered and its text
    holder,           \* the request holding the character mutex, or NoRequest
    waiters,          \* the requests queued on the character mutex, in order
    requests          \* the frontend's requests: handler, form and position

statsVars == <<stats, overflow_checks, before, call, result, spends, initial, costs_paid>>

frontendVars == <<holder, waiters, requests>>

vars == <<statsVars, character, rendered, frontendVars>>

----------------------------------------------------------------------------
(* Bounds of the model *)

MaxSpends == 2      \* successful spend_effort calls followed in one behaviour
MaxEffort == 2      \* effort budgets 0..MaxEffort (and the boundary ones)
MaxLevel  == 2      \* effort_level arguments 0..MaxLevel (and boundary ones)
MaxEdge   == 1      \* edge arguments 0..MaxEdge (and the boundary ones)
MaxRequests == 2    \* requests the frontend serves in one behaviour

(* u8: 2^8 values *)
U8Modulus == 256
U8Max == U8Modulus - 1

(* effort levels at which the u8 cost arithmetic changes behaviour:        *)
(*   85 : 3 + 84*2 = 171, and 171 + 85 = 256 leaves u8 when not Hale       *)
(*  129 : 128*2 = 256 leaves u8                                            *)
BoundaryLevels == {85, 129}

(* the edge at which it does: 4 is the first edge above the base cost 3 *)
BoundaryEdges == {4}

EffortValues == (0..MaxEffort) \cup {U8Max}
LevelValues  == (0..MaxLevel) \cup BoundaryLevels
EdgeValues   == (0..MaxEdge) \cup BoundaryEdges

----------------------------------------------------------------------------
(* Types *)

Tier == {"One", "Two", "Three", "Four", "Five", "Six"}

EffortType == {"Might", "Speed", "Intellect"}

DamageTrack == {"Hale", "Impaired", "Debilitated"}

(* let pool = match effort_type { Might => &mut self.might, ... } *)
PoolOfMightTwice(effort_type) ==
    CASE effort_type = "Might"     -> "might"
      [] effort_type = "Speed"     -> "might"
      [] effort_type = "Intellect" -> "intellect"

PoolOf(effort_type) ==
    CASE effort_type = "Might"     -> "might"
      [] effort_type = "Speed"     -> "speed"
      [] effort_type = "Intellect" -> "intellect"

PoolFields == {"might", "speed", "intellect"}

PoolNew(max, edge) == [current |-> max, max |-> max, edge |-> edge]

RecoveryRollsDefault ==
    [one_action |-> FALSE, ten_minutes |-> FALSE,
     one_hour |-> FALSE, ten_hours |-> FALSE]

AdvancementDefault ==
    [increase_capabilities |-> FALSE, move_toward_perfection |-> FALSE,
     extra_effort |-> FALSE, skill_training |-> FALSE, other |-> FALSE]

CharacterStatsNewSwapped(might_pool, might_edge, speed_pool, speed_edge, intellect_pool, intellect_edge) ==
    [tier           |-> "One",
     effort         |-> 1,
     xp             |-> 0,
     might          |-> PoolNew(might_pool, might_edge),
     speed          |-> PoolNew(intellect_pool, speed_edge),
     intellect      |-> PoolNew(speed_pool, intellect_edge),
     recovery_rolls |-> RecoveryRollsDefault,
     damage_track   |-> "Hale",
     advancement    |-> AdvancementDefault]

CharacterStatsNew(might_pool, might_edge, speed_pool, speed_edge, intellect_pool, intellect_edge) ==
    [tier           |-> "One",
     effort         |-> 1,
     xp             |-> 0,
     might          |-> PoolNew(might_pool, might_edge),
     speed          |-> PoolNew(speed_pool, speed_edge),
     intellect      |-> PoolNew(intellect_pool, intellect_edge),
     recovery_rolls |-> RecoveryRollsDefault,
     damage_track   |-> "Hale",
     advancement    |-> AdvancementDefault]

----------------------------------------------------------------------------
(* u8 arithmetic *)

Wrap(n) == (n + U8Modulus * U8Modulus) % U8Modulus

InU8(n) == n >= 0 /\ n <= U8Max

(* let mut points_to_spend = 3 + (effort_level - 1) * 2 - edge;            *)
(* if self.damage_track != DamageTrack::Hale                               *)
(*     { points_to_spend += effort_level; }                                *)
(* evaluated left to right in u8, for effort_level >= 1.  value is the     *)
(* result with every step wrapped; overflow says that some step left u8.   *)
Surcharge(damage_track, effort_level) ==
    IF damage_track # "Hale" THEN effort_level ELSE 0

PointsToSpend(effort_level, edge, damage_track) ==
    LET dec   == effort_level - 1
        twice == dec * 2
        base  == 3 + Wrap(twice)
        disc  == Wrap(base) - edge
        total == Wrap(disc) + Surcharge(damage_track, effort_level)
    IN  [overflow |-> ~(InU8(dec) /\ InU8(twice) /\ InU8(base)
                        /\ InU8(disc) /\ InU8(total)),
         value    |-> Wrap(total)]

(* if effort_level == 0 { bail } *)
IsZeroEffortNever(effort_level) == FALSE

IsZeroEffort(effort_level) == effort_level = 0

(* if self.effort < effort_level { bail } *)
ExceedsEffortSwapped(effort, effort_level) == effort_level < effort

ExceedsEffort(effort, effort_level) == effort < effort_level

(* if pool.edge < edge { bail } *)
ExceedsEdge(pool_edge, edge) == pool_edge < edge

(* if points_to_spend >= pool.current { bail } *)
ExhaustsStrictly(points_to_spend, current) == points_to_spend > current

ExhaustsNever(points_to_spend, current) == FALSE

Exhausts(points_to_spend, current) == points_to_spend >= current

(* The outcome of a call: the value of self afterwards and what is         *)
(* returned.  Every bail! returns before self is written.                  *)
Outcome(self, res) == [stats |-> self, result |-> res]

(* pool.current -= points_to_spend *)
SpentAdded(self, effort_type, points_to_spend) ==
    [self EXCEPT ![PoolOf(effort_type)].current = @ + points_to_spend]

SpentFromMax(self, effort_type, points_to_spend) ==
    [self EXCEPT ![PoolOf(effort_type)].current = @ - points_to_spend,
                 ![PoolOf(effort_type)].max = Wrap(@ - points_to_spend)]

Spent(self, effort_type, points_to_spend) ==
    [self EXCEPT ![PoolOf(effort_type)].current = @ - points_to_spend]

(* the exhaustion check and the write that follows it *)
PayEagerly(self, effort_type, points_to_spend) ==
    LET pool == self[PoolOf(effort_type)]
        paid == [self EXCEPT ![PoolOf(effort_type)].current =
                                 Wrap(@ - points_to_spend)]
    IN  IF Exhausts(points_to_spend, pool.current)
        THEN Outcome(paid, [kind |-> "PoolExhausted",
                            effort_type |-> effort_type,
                            max |-> pool.current,
                            requested |-> points_to_spend])
        ELSE Outcome(paid, [kind |-> "Ok"])

Pay(self, effort_type, points_to_spend) ==
    LET pool == self[PoolOf(effort_type)]
    IN  IF Exhausts(points_to_spend, pool.current)
        THEN Outcome(self, [kind |-> "PoolExhausted",
                            effort_type |-> effort_type,
                            max |-> pool.current,
                            requested |-> points_to_spend])
        ELSE Outcome(Spent(self, effort_type, points_to_spend),
                     [kind |-> "Ok"])

(* checks: the build's overflow-checks.  An overflowing step of the cost   *)
(* arithmetic panics when they are on and wraps when they are off.         *)
spend_effort(self, effort_type, effort_level, edge, checks) ==
    IF IsZeroEffort(effort_level)
    THEN Outcome(self, [kind |-> "ZeroEffort"])
    ELSE IF ExceedsEffort(self.effort, effort_level)
    THEN Outcome(self, [kind |-> "EffortExceeded",
                        max |-> self.effort, requested |-> effort_level])
    ELSE LET pool == self[PoolOf(effort_type)] IN
    IF ExceedsEdge(pool.edge, edge)
    THEN Outcome(self, [kind |-> "EdgeExceeded",
                        max |-> pool.edge, requested |-> edge])
    ELSE LET points == PointsToSpend(effort_level, edge, self.damage_track) IN
    IF checks /\ points.overflow
    THEN Outcome(self, [kind |-> "Panic"])
    ELSE Pay(self, effort_type, points.value)

----------------------------------------------------------------------------
(* Character and Sentence, and their Display *)

(* Option<String> *)
None == [some |-> FALSE]

Some(value) == [some |-> TRUE, value |-> value]

(* a variable of a part of the repository that the program at hand lacks *)
Absent == [absent |-> TRUE]

(* let flavor_display = self.flavor.as_ref()                               *)
(*     .map(|f| format!(" ({f})")).unwrap_or_default();                    *)
FlavorDisplayBare(flavor) ==
    IF flavor.some THEN " (" \o flavor.value \o ")" ELSE " ()"

FlavorDisplay(flavor) ==
    IF flavor.some THEN " (" \o flavor.value \o ")" ELSE ""

(* write!(f, "{} {}{} who {}", descriptor, character_type, flavor_display, *)
(*        focus)                                                           *)
SentenceDisplay(sentence) ==
    sentence.descriptor \o " " \o sentence.character_type
        \o FlavorDisplay(sentence.flavor) \o " who " \o sentence.focus

(* write!(f, "{} ({}) is a {}", name, pronouns, sentence) *)
CharacterDisplay(self) ==
    self.name \o " (" \o self.pronouns \o ") is a "
        \o SentenceDisplay(self.sentence)

(* the characters rendered: those of the crate's documentation and of the  *)
(* frontend, every field varied, with and without a flavor                 *)
Characters ==
    {[name |-> n, pronouns |-> p,
      sentence |-> [descriptor |-> d, character_type |-> t,
                    flavor |-> fl, focus |-> fo]] :
        n \in {"Ferris", "Tacos"}, p \in {"any", "yum/my"},
        d \in {"Fast", "Delicious"}, t \in {"Explorer", "Avocado"},
        fl \in {None, Some("Technology"), Some("")},
        fo \in {"Helps Their Friends", "Satiates the Hungry"}}

----------------------------------------------------------------------------
(* Construction *)

(* The pools a state is built from: a full pool with some edge, a small    *)
(* pool with an edge above the base cost, and a drained pool.              *)
PoolValues ==
    {[current |-> 10, max |-> 10, edge |-> 1],
     [current |-> 2, max |-> 2, edge |-> 4],
     [current |-> 0, max |-> 5, edge |-> 0]}

(* the three pools hold the three PoolValues, in any order *)
PoolAssignments ==
    {f \in [PoolFields -> PoolValues] :
        \A p, q \in PoolFields : f[p] = f[q] => p = q}

(* the fields spend_effort never reads: as CharacterStats::new sets them,  *)
(* or all of them set                                                      *)
RestValues ==
    {[tier |-> "One", xp |-> 0, recovery_rolls |-> RecoveryRollsDefault,
      advancement |-> AdvancementDefault],
     [tier |-> "Six", xp |-> U8Max,
      recovery_rolls |-> [one_action |-> TRUE, ten_minutes |-> TRUE,
                          one_hour |-> TRUE, ten_hours |-> TRUE],
      advancement |-> [increase_capabilities |-> TRUE,
                       move_toward_perfection |-> TRUE,
                       extra_effort |-> TRUE, skill_training |-> TRUE,
                       other |-> TRUE]]}

(* the pool each effort type names: Might -> might, Speed -> speed,        *)
(* Intellect -> intellect                                                  *)
NamedPool(effort_type) ==
    CASE effort_type = "Might"     -> "might"
      [] effort_type = "Speed"     -> "speed"
      [] effort_type = "Intellect" -> "intellect"

(* the cost as the specification writes it, over the integers *)
Cost(effort_level, edge, damage_track) ==
    3 + (effort_level - 1) * 2 - edge
      + (IF damage_track # "Hale" THEN effort_level ELSE 0)

(* nothing paid from any pool yet *)
NonePaid == [p \in PoolFields |-> 0]

(* costs_paid after a call: a successful call adds its cost to the pool   *)
(* named by its effort type, any other call adds nothing                   *)
PaidAfter(kind, effort_type, effort_level, edge, damage_track) ==
    IF kind = "Ok"
    THEN [costs_paid EXCEPT ![NamedPool(effort_type)] =
                          @ + Cost(effort_level, edge, damage_track)]
    ELSE costs_paid

(* the programs of the model crate's tests hold no Character and serve no *)
(* request                                                                 *)
NoRequest == 0

CharacterAbsent == character = Absent /\ rendered = Absent

FrontendAbsent == holder = NoRequest /\ waiters = <<>> /\ requests = <<>>

NoCall == [op |-> "none"]
NoResult == [kind |-> "None"]

(* #[derive(Deserialize)] on CharacterStats: any value of every field *)
Init ==
    /\ overflow_checks \in BOOLEAN
    /\ \E effort \in EffortValues, damage_track \in DamageTrack,
          pools \in PoolAssignments, rest \in RestValues :
         stats = [tier           |-> rest.tier,
                  effort         |-> effort,
                  xp             |-> rest.xp,
                  might          |-> pools["might"],
                  speed          |-> pools["speed"],
                  intellect      |-> pools["intellect"],
                  recovery_rolls |-> rest.recovery_rolls,
                  damage_track   |-> damage_track,
                  advancement    |-> rest.advancement]
    /\ before = stats
    /\ call = NoCall
    /\ result = NoResult
    /\ spends = 0
    /\ initial = stats
    /\ costs_paid = NonePaid
    /\ CharacterAbsent
    /\ FrontendAbsent

SpendEffort ==
    \E effort_type \in EffortType, effort_level \in LevelValues,
       edge \in EdgeValues :
        \E out \in {spend_effort(stats, effort_type, effort_level, edge,
                                 overflow_checks)} :
            /\ result.kind # "Panic"
            /\ spends < MaxSpends
            /\ stats' = out.stats
            /\ result' = out.result
            /\ before' = stats
            /\ call' = [op |-> "spend_effort", effort_type |-> effort_type,
                        effort_level |-> effort_level, edge |-> edge]
            /\ spends' = IF out.result.kind = "Ok" THEN spends + 1 ELSE spends
            /\ costs_paid' = PaidAfter(out.result.kind, effort_type, effort_level,
                                 edge, stats.damage_track)
            /\ UNCHANGED <<overflow_checks, initial>>
            /\ UNCHANGED <<character, rendered, frontendVars>>

Next == SpendEffort

Spec == Init /\ [][Next]_vars

(* CharacterStats::new with pool sizes of the crate's tests, no edge and   *)
(* the first edge above the base cost                                      *)
NewPools == {2, 10}
NewEdges == {0, 4}

InitNew ==
    /\ overflow_checks \in BOOLEAN
    /\ \E might_pool \in NewPools, might_edge \in NewEdges,
          speed_pool \in NewPools, speed_edge \in NewEdges,
          intellect_pool \in NewPools, intellect_edge \in NewEdges :
         stats = CharacterStatsNew(might_pool, might_edge, speed_pool,
                                   speed_edge, intellect_pool, intellect_edge)
    /\ before = stats
    /\ call = NoCall
    /\ result = NoResult
    /\ spends = 0
    /\ initial = stats
    /\ costs_paid = NonePaid
    /\ CharacterAbsent
    /\ FrontendAbsent

SpecNew == InitNew /\ [][Next]_vars

(* CharacterStats::new called with any u8 arguments: the ends of the range *)
(* and values between them                                                 *)
ConstructPools == {0, 10, U8Max}
ConstructEdges == {0, 4, U8Max}

New ==
    \E might_pool \in ConstructPools, might_edge \in ConstructEdges,
       speed_pool \in ConstructPools, speed_edge \in ConstructEdges,
       intellect_pool \in ConstructPools, intellect_edge \in ConstructEdges :
        /\ stats' = CharacterStatsNew(might_pool, might_edge, speed_pool,
                                      speed_edge, intellect_pool,
                                      intellect_edge)
        /\ before' = stats'
        /\ call' = [op |-> "new",
                    might_pool |-> might_pool, might_edge |-> might_edge,
                    speed_pool |-> speed_pool, speed_edge |-> speed_edge,
                    intellect_pool |-> intellect_pool,
                    intellect_edge |-> intellect_edge]
        /\ result' = NoResult
        /\ spends' = 0
        /\ initial' = stats'
        /\ costs_paid' = NonePaid
        /\ UNCHANGED overflow_checks
        /\ UNCHANGED <<character, rendered, frontendVars>>

NextConstruct == New

SpecConstruct == InitNew /\ [][NextConstruct]_vars

----------------------------------------------------------------------------
(* Rendering a Character: character.to_string() *)

(* a program that holds a Character has no CharacterStats *)
StatsAbsent ==
    /\ stats = Absent
    /\ overflow_checks = FALSE
    /\ before = Absent
    /\ call = NoCall
    /\ result = NoResult
    /\ spends = 0
    /\ initial = Absent
    /\ costs_paid = NonePaid

InitDisplay ==
    /\ character \in Characters
    /\ rendered = Absent
    /\ StatsAbsent
    /\ FrontendAbsent

Display ==
    /\ rendered' = [of |-> character, text |-> CharacterDisplay(character)]
    /\ UNCHANGED <<character, statsVars, frontendVars>>

NextDisplay == Display

SpecDisplay == InitDisplay /\ [][NextDisplay]_vars

----------------------------------------------------------------------------
(* The frontend: one Character behind a tokio Mutex, three handlers that   *)
(* read it and update_character.  Handlers run concurrently; each is a     *)
(* sequence of steps, and a request is at one of them (its pc).            *)

(* main: the Character the server starts with *)
MainCharacter ==
    [name |-> "Tacos", pronouns |-> "yum/my",
     sentence |-> [descriptor |-> "Delicious", character_type |-> "Avocado",
                   flavor |-> Some("Spicy"),
                   focus |-> "Satiates the Hungry"]]

(* CharacterRequest: its fields, in the order update_character tests them *)
FieldOrder ==
    <<"name", "pronouns", "descriptor", "character_type", "flavor", "focus">>

Fields == {FieldOrder[i] : i \in DOMAIN FieldOrder}

(* the forms sent: no field, every field, or one field, with a text or     *)
(* the empty text                                                          *)
FormValues == {"Edited", ""}

PresentSets == {{}, Fields} \cup {{f} : f \in Fields}

Forms ==
    {[f \in Fields |-> IF f \in present THEN Some(v) ELSE None] :
        present \in PresentSets, v \in FormValues}

ReadHandlers == {"character_sheet", "character_edit", "character_view"}

Requests == 1..MaxRequests

(* lock.<field> = <value>; the flavor is stored as Some(flavor) *)
Assign(self, field, value) ==
    CASE field = "name" -> [self EXCEPT !.name = value]
      [] field = "pronouns" -> [self EXCEPT !.pronouns = value]
      [] field = "descriptor" -> [self EXCEPT !.sentence.descriptor = value]
      [] field = "character_type" ->
           [self EXCEPT !.sentence.character_type = value]
      [] field = "flavor" -> [self EXCEPT !.sentence.flavor = Some(value)]
      [] field = "focus" -> [self EXCEPT !.sentence.focus = value]

(* if let Some(<field>) = form.<field> { lock.<field> = <field>; } *)
IfLetSomeFlavorCopied(self, field, form) ==
    IF field = "flavor"
    THEN [self EXCEPT !.sentence.flavor = form[field]]
    ELSE IF form[field].some
         THEN Assign(self, field, form[field].value)
         ELSE self

IfLetSome(self, field, form) ==
    IF form[field].some THEN Assign(self, field, form[field].value) ELSE self

(* the six tests of update_character, one after the other *)
update_character(self, form) ==
    IfLetSome(IfLetSome(IfLetSome(IfLetSome(IfLetSome(IfLetSome(
        self, "name", form), "pronouns", form), "descriptor", form),
        "character_type", form), "flavor", form), "focus", form)

(* state.character.lock().await returns at once when the mutex is free *)
MutexFreeAlways(mutex_holder) == TRUE

MutexFree(mutex_holder) == mutex_holder = NoRequest

(* the first step of a handler once it holds the mutex *)
FirstLocked(handler) ==
    IF handler = "update_character" THEN FieldOrder[1] ELSE "clone"

(* the step after the test of a field *)
AfterField(field) ==
    IF field = "focus"
    THEN "unlock"
    ELSE FieldOrder[(CHOOSE i \in DOMAIN FieldOrder : FieldOrder[i] = field) + 1]

(* a request that got the mutex: it notes the Character it finds (seen)    *)
Granted(request, found) ==
    [request EXCEPT !.pc = FirstLocked(request.handler), !.seen = found]

InitFrontend ==
    /\ character = MainCharacter
    /\ rendered = Absent
    /\ holder = NoRequest
    /\ waiters = <<>>
    /\ requests \in
         [Requests ->
            {[handler |-> h, form |-> Absent, pc |-> "start",
              seen |-> Absent, out |-> Absent] : h \in ReadHandlers}
            \cup
            {[handler |-> "update_character", form |-> f, pc |-> "start",
              seen |-> Absent, out |-> Absent] : f \in Forms}]
    /\ StatsAbsent

(* state.character.lock().await: take the mutex, or queue for it *)
Lock(r) ==
    /\ requests[r].pc = "start"
    /\ IF MutexFree(holder)
       THEN /\ holder' = r
            /\ requests' = [requests EXCEPT ![r] = Granted(@, character)]
            /\ UNCHANGED waiters
       ELSE /\ waiters' = Append(waiters, r)
            /\ requests' = [requests EXCEPT ![r].pc = "waiting"]
            /\ UNCHANGED holder
    /\ UNCHANGED <<character, rendered, statsVars>>

(* .clone() of the locked Character, in character_sheet, character_edit    *)
(* and character_view                                                      *)
Clone(r) ==
    /\ requests[r].pc = "clone"
    /\ requests' = [requests EXCEPT ![r].out = character, ![r].pc = "unlock"]
    /\ UNCHANGED <<character, rendered, holder, waiters, statsVars>>

(* one if let Some(..) of update_character *)
UpdateField(r) ==
    /\ requests[r].pc \in Fields
    /\ character' = IfLetSome(character, requests[r].pc, requests[r].form)
    /\ requests' = [requests EXCEPT ![r].pc = AfterField(@)]
    /\ UNCHANGED <<rendered, holder, waiters, statsVars>>

(* the MutexGuard is dropped: the first request queued gets the mutex.     *)
(* out of an update is the Character it leaves.                            *)
Unlock(r) ==
    /\ requests[r].pc = "unlock"
    /\ LET left == [requests EXCEPT
                      ![r].pc = "done",
                      ![r].out = IF requests[r].handler = "update_character"
                                 THEN character ELSE @]
       IN  IF waiters = <<>>
           THEN /\ holder' = NoRequest
                /\ requests' = left
                /\ UNCHANGED waiters
           ELSE /\ holder' = Head(waiters)
                /\ waiters' = Tail(waiters)
                /\ requests' = [left EXCEPT
                                  ![Head(waiters)] = Granted(@, character)]
    /\ UNCHANGED <<character, rendered, statsVars>>

NextFrontend ==
    \E r \in Requests : Lock(r) \/ Clone(r) \/ UpdateField(r) \/ Unlock(r)

SpecFrontend == InitFrontend /\ [][NextFrontend]_vars

----------------------------------------------------------------------------
(* Properties of spend_effort.  They are stated on the state after a call: *)
(* before is self before it, call its arguments, result what it returned.  *)

Called == call.op = "spend_effort"

Selected == NamedPool(call.effort_type)

Errors == {"ZeroEffort", "EffortExceeded", "EdgeExceeded", "PoolExhausted"}

(* the zero-effort, effort-budget and edge checks all pass *)
ChecksPass ==
    /\ Called
    /\ call.effort_level >= 1
    /\ call.effort_level <= before.effort
    /\ call.edge <= before[Selected].edge

CallCost == Cost(call.effort_level, call.edge, before.damage_track)

(* C1: a call that passes the three checks and whose cost is below the     *)
(* selected pool's current succeeds and lowers that current by the cost.   *)
C1_SpendSucceeds ==
    (ChecksPass /\ CallCost < before[Selected].current)
        => /\ result.kind = "Ok"
           /\ stats[Selected].current = before[Selected].current - CallCost

(* C2: spend_effort never panics: every call returns success or one of the *)
(* four errors, and no step of the cost arithmetic leaves 0..255.          *)
C2_NeverPanics ==
    /\ Called => result.kind \in Errors \cup {"Ok"}
    /\ ChecksPass =>
         ~PointsToSpend(call.effort_level, call.edge,
                        before.damage_track).overflow

(* C3: when spend_effort returns an error, every field of CharacterStats   *)
(* has the value it had before the call.                                   *)
C3_ErrorsLeaveStateUnchanged ==
    (Called /\ result.kind \in Errors) => stats = before

C3_Witness ==
    /\ Called
    /\ result.kind = "PoolExhausted"
    /\ before[Selected].current > 0
    /\ result.requested > 0
    /\ stats = before

(* C4: effort_level = 0 fails with ZeroEffort whatever the effort type,    *)
(* the edge and the state, also when the later checks would fail too.      *)
C4_ZeroEffortFirst ==
    (Called /\ call.effort_level = 0) => result = [kind |-> "ZeroEffort"]

C4_Witness ==
    /\ Called
    /\ call.effort_level = 0
    /\ before.effort = 0
    /\ call.edge > before[Selected].edge
    /\ before[Selected].current = 0
    /\ result.kind = "ZeroEffort"

(* C5: effort_level >= 1 above the effort budget fails with EffortExceeded *)
(* reporting max = effort and requested = effort_level, whatever the edge  *)
(* and the pool; so does every level >= 2 on a fresh CharacterStats.       *)
C5_EffortExceeded ==
    (Called /\ call.effort_level >= 1 /\ call.effort_level > before.effort)
        => result = [kind |-> "EffortExceeded", max |-> before.effort,
                     requested |-> call.effort_level]

C5_Witness ==
    /\ Called
    /\ before.effort = 1
    /\ call.effort_level = 2
    /\ call.edge > before[Selected].edge
    /\ before[Selected].current = 0
    /\ result.kind = "EffortExceeded"

(* C6: with 1 <= effort_level <= effort, an edge above the edge of the     *)
(* pool named by effort_type fails with EdgeExceeded reporting max = that  *)
(* pool's edge and requested = the edge, whatever the pool's current and   *)
(* the edges of the two other pools.                                       *)
C6_EdgeExceeded ==
    (/\ Called
     /\ call.effort_level >= 1
     /\ call.effort_level <= before.effort
     /\ call.edge > before[Selected].edge)
        => result = [kind |-> "EdgeExceeded",
                     max |-> before[Selected].edge, requested |-> call.edge]

C6_Witness ==
    /\ Called
    /\ result.kind = "EdgeExceeded"
    /\ call.effort_type = "Speed"
    /\ call.edge > before.speed.edge
    /\ call.edge <= before.might.edge
    /\ call.edge <= before.intellect.edge

(* C7: when the three checks pass and the cost is at least the selected    *)
(* pool's current, the call fails with PoolExhausted reporting the effort  *)
(* type, max = the current and requested = the cost, and leaves the pool.  *)
C7_PoolExhausted ==
    (ChecksPass /\ CallCost >= before[Selected].current)
        => /\ result = [kind |-> "PoolExhausted",
                        effort_type |-> call.effort_type,
                        max |-> before[Selected].current,
                        requested |-> CallCost]
           /\ stats[Selected] = before[Selected]

(* C8: a successful spend leaves at least 1 in the selected pool, and no   *)
(* call takes a pool's current from a positive value to 0.                 *)
C8_NonzeroRemainder ==
    /\ (Called /\ result.kind = "Ok") => stats[Selected].current >= 1
    /\ \A p \in PoolFields :
         before[p].current > 0 => stats[p].current > 0

C8_Witness ==
    /\ Called
    /\ result.kind = "Ok"
    /\ before[Selected].current > 1
    /\ stats[Selected].current = 1

(* C9: in every state reached from CharacterStats::new by spend_effort     *)
(* calls, each pool has 0 <= current <= max.                               *)
C9_CurrentWithinMax ==
    \A p \in PoolFields :
        /\ stats[p].current >= 0
        /\ stats[p].current <= stats[p].max

C9_Witness ==
    /\ Called
    /\ result.kind = "Ok"
    /\ spends = 2
    /\ stats[Selected].current < before[Selected].current
    /\ before[Selected].current < stats[Selected].max

(* the last call made again from before with another damage track *)
WithDamage(self, damage_track) == [self EXCEPT !.damage_track = damage_track]

CallWithDamage(damage_track) ==
    spend_effort(WithDamage(before, damage_track), call.effort_type,
                 call.effort_level, call.edge, overflow_checks)

(* the cost a call shows its caller: the requested number of a             *)
(* PoolExhausted error or the amount a successful call took from the pool; *)
(* -1 when the call shows none                                             *)
ShownCost(self, out, effort_type) ==
    CASE out.result.kind = "PoolExhausted" -> out.result.requested
      [] out.result.kind = "Ok" ->
           self[NamedPool(effort_type)].current
             - out.stats[NamedPool(effort_type)].current
      [] OTHER -> -1

CostWithDamage(damage_track) ==
    ShownCost(before, CallWithDamage(damage_track), call.effort_type)

(* C10: the damage track enters spend_effort only as Hale or not Hale:     *)
(* the cost when Impaired or Debilitated is effort_level more than when    *)
(* Hale, and Impaired and Debilitated give the same outcome and pools.     *)
C10_DamageTrackSurcharge ==
    /\ ChecksPass =>
         \A d \in DamageTrack \ {"Hale"} :
            /\ CostWithDamage("Hale") >= 0
            /\ CostWithDamage(d) = CostWithDamage("Hale") + call.effort_level
    /\ Called =>
         /\ CallWithDamage("Impaired").result
              = CallWithDamage("Debilitated").result
         /\ \A p \in PoolFields :
              CallWithDamage("Impaired").stats[p]
                = CallWithDamage("Debilitated").stats[p]

(* C13: a successful spend_effort changes only the current of the pool     *)
(* named by effort_type: that pool's max and edge, the two other pools,    *)
(* tier, effort, xp, recovery rolls, damage track and advancement stay.    *)
C13_SuccessFrame ==
    (Called /\ result.kind = "Ok")
        => stats = [before EXCEPT
                       ![Selected].current = stats[Selected].current]

C13_Witness ==
    /\ Called
    /\ result.kind = "Ok"
    /\ stats[Selected].current < before[Selected].current
    /\ before.tier = "Six"
    /\ before.effort = 2
    /\ before.damage_track = "Impaired"
    /\ before.advancement.extra_effort

----------------------------------------------------------------------------
(* Properties of CharacterStats::new, stated on the state after a call.    *)

(* C11: new accepts every combination of u8 arguments and returns tier     *)
(* One, effort 1, xp 0, Hale, every recovery-roll and advancement flag     *)
(* false, and each pool with current = max = its own pool argument and     *)
(* edge = its own edge argument.                                           *)
C11_NewState ==
    call.op = "new" =>
        /\ stats.tier = "One"
        /\ stats.effort = 1
        /\ stats.xp = 0
        /\ stats.damage_track = "Hale"
        /\ \A f \in DOMAIN stats.recovery_rolls : ~stats.recovery_rolls[f]
        /\ DOMAIN stats.recovery_rolls =
             {"one_action", "ten_minutes", "one_hour", "ten_hours"}
        /\ \A f \in DOMAIN stats.advancement : ~stats.advancement[f]
        /\ DOMAIN stats.advancement =
             {"increase_capabilities", "move_toward_perfection",
              "extra_effort", "skill_training", "other"}
        /\ stats.might = [current |-> call.might_pool,
                          max |-> call.might_pool, edge |-> call.might_edge]
        /\ stats.speed = [current |-> call.speed_pool,
                          max |-> call.speed_pool, edge |-> call.speed_edge]
        /\ stats.intellect = [current |-> call.intellect_pool,
                              max |-> call.intellect_pool,
                              edge |-> call.intellect_edge]

C11_Witness ==
    /\ call.op = "new"
    /\ call.might_pool = U8Max /\ call.might_edge = 0
    /\ call.speed_pool = 0 /\ call.speed_edge = U8Max
    /\ call.intellect_pool = 10 /\ call.intellect_edge = 4
    /\ stats.might.current = U8Max
    /\ stats.speed.edge = U8Max
    /\ stats.intellect.max = 10

----------------------------------------------------------------------------
(* Properties of the Display of Character *)

(* C12: a Character renders as "{name} ({pronouns}) is a {descriptor}      *)
(* {character_type}{F} who {focus}", F being " ({flavor})" when the flavor *)
(* is set and empty when it is None; rendering changes no field.           *)
C12_Flavor(c) ==
    IF c.sentence.flavor = None
    THEN ""
    ELSE " (" \o c.sentence.flavor.value \o ")"

C12_Rendering ==
    rendered # Absent =>
        /\ rendered.text =
             rendered.of.name \o " (" \o rendered.of.pronouns \o ") is a "
               \o rendered.of.sentence.descriptor \o " "
               \o rendered.of.sentence.character_type
               \o C12_Flavor(rendered.of)
               \o " who " \o rendered.of.sentence.focus
        /\ character = rendered.of
        /\ (rendered.of = [name |-> "Ferris", pronouns |-> "any",
                           sentence |-> [descriptor |-> "Fast",
                                         character_type |-> "Explorer",
                                         flavor |-> Some("Technology"),
                                         focus |-> "Helps Their Friends"]])
             => rendered.text = "Ferris (any) is a Fast Explorer (Technology) who Helps Their Friends"

C12_Witness ==
    /\ rendered # Absent
    /\ character.sentence.flavor = None
    /\ rendered.text = "Tacos (yum/my) is a Delicious Avocado who Satiates the Hungry"

----------------------------------------------------------------------------
(* Properties of the frontend's handlers. *)

IsUpdate(r) == requests[r].handler = "update_character"

IsRead(r) == requests[r].handler \in ReadHandlers

(* the steps a handler takes only while it holds the mutex *)
HoldsMutex(r) == requests[r].pc \in Fields \cup {"clone", "unlock"}

(* the Characters that existed between updates: the one main built and     *)
(* the one each finished update left                                       *)
Versions ==
    {MainCharacter}
        \cup {requests[u].out : u \in {w \in Requests : IsUpdate(w) /\ requests[w].pc = "done"}}

(* C15: update_character makes all its assignments, and every read handler *)
(* takes its clone, while holding the one mutex; so whatever the           *)
(* interleaving, at most one request is inside at a time, every clone is   *)
(* the Character main built or the Character one finished update left      *)
(* (never a mix of old and new fields), and every update finds such a      *)
(* Character and leaves exactly its own six assignments applied to it      *)
(* (updates are applied one after the other).                              *)
C15_ReadsSeeWholeUpdates ==
    /\ \A r \in Requests : HoldsMutex(r) => holder = r
    /\ \A r \in Requests :
         (IsRead(r) /\ requests[r].out # Absent) => requests[r].out \in Versions
    /\ \A u \in Requests :
         (IsUpdate(u) /\ requests[u].pc = "done")
            => /\ requests[u].seen \in Versions
               /\ requests[u].out
                    = update_character(requests[u].seen, requests[u].form)

(* a read queued behind an update that has assigned some of its fields:    *)
(* the Character is a mix of old and new fields at this moment             *)
C15_Witness ==
    \E r, u \in Requests :
        /\ IsRead(r) /\ requests[r].pc = "waiting"
        /\ IsUpdate(u) /\ requests[u].pc = "flavor"
        /\ waiters = <<r>>
        /\ character.name = "Edited"
        /\ character.sentence.focus = "Satiates the Hungry"
        /\ requests[u].form["focus"] = Some("Edited")

(* C16: a finished update_character has replaced each field whose form     *)
(* value is present by that value (the flavor by Some(value)) and left     *)
(* each field whose form value is absent as it found it; and the flavor,   *)
(* set by main, is never None again.                                       *)
C16_ExactlyPresentFields ==
    /\ \A u \in Requests :
         (IsUpdate(u) /\ requests[u].pc = "done")
            => LET form == requests[u].form
                   old  == requests[u].seen
                   new  == requests[u].out
               IN  /\ new.name = IF form["name"] = None
                                 THEN old.name ELSE form["name"].value
                   /\ new.pronouns = IF form["pronouns"] = None
                                     THEN old.pronouns
                                     ELSE form["pronouns"].value
                   /\ new.sentence.descriptor
                        = IF form["descriptor"] = None
                          THEN old.sentence.descriptor
                          ELSE form["descriptor"].value
                   /\ new.sentence.character_type
                        = IF form["character_type"] = None
                          THEN old.sentence.character_type
                          ELSE form["character_type"].value
                   /\ new.sentence.flavor
                        = IF form["flavor"] = None
                          THEN old.sentence.flavor
                          ELSE [some |-> TRUE, value |-> form["flavor"].value]
                   /\ new.sentence.focus
                        = IF form["focus"] = None
                          THEN old.sentence.focus
                          ELSE form["focus"].value
    /\ character.sentence.flavor # None

(* an update that set the flavor to the empty text, then an update with    *)
(* no flavor in its form: the flavor is still Some("")                     *)
C16_Witness ==
    \E u, w \in Requests :
        /\ IsUpdate(u) /\ requests[u].pc = "done"
        /\ IsUpdate(w) /\ requests[w].pc = "done"
        /\ requests[u].form["flavor"] = Some("")
        /\ requests[w].form["flavor"] = None
        /\ requests[w].form["name"] = Some("Edited")
        /\ requests[w].seen = requests[u].out
        /\ character.name = "Edited"
        /\ character.sentence.flavor = [some |-> TRUE, value |-> ""]

====
